---- MODULE Spec2Model ----
(***************************************************************************)
(* Model of the routing engine of DeliveryLpg:                             *)
(*   src/src/optimization/vrp_solver.py      VRPSolver                     *)
(*   src/src/optimization/route_optimizer.py RouteOptimizer                *)
(* Distances and times are integers (as in src/test_core.py); the time     *)
(* windows of delivery_data are "HH:MM" strings, kept as <<hour, minute>>. *)
(***************************************************************************)
EXTENDS Integers, Sequences, FiniteSets, TLC

\* ------------------------------------------------------------ bounds ----
MaxLocations == 3      \* rows of delivery_data, depot included
MaxDist == 2           \* largest base entry of the distance matrix
MinutesPerKm == 30     \* time_matrix entry per unit of distance
MaxMatrixLocations == 2  \* rows of the table a DistanceMatrix is built for

\* -------------------------------------------------- program constants ----
vehicle_capacity == 80            \* DELIVERY.vehicle_capacity
max_route_duration_hours == 8     \* DELIVERY.max_route_duration_hours
max_vehicles == 10                \* OPTIMIZATION.max_vehicles
waiting_slack == 30               \* AddDimension(..., 30, ...): allow waiting time

urban_center == 0                 \* GEOGRAPHIC.urban_center, the origin of the km axis
urban_radius_km == 10             \* GEOGRAPHIC.urban_radius_km
urban_speed_kmh == 30             \* DELIVERY.urban_speed_kmh
rural_speed_kmh == 60             \* DELIVERY.rural_speed_kmh

None == 0 - 1                      \* None where the value is a number
NoneRec == [none |-> TRUE]        \* None where the value is a dict, a list or an object

\* ------------------------------------------------------ input families ----
DemandValues == {5, 40, 75, 81}     \* create_baseline_solution: any demands
SolveDemandValues == {40, 75}       \* solve_vrp: demands that fit a vehicle
VehicleArgs == {None, 1}
WideWindow == << <<0, 0>>, <<8, 0>> >>
LocationWindows == {WideWindow, << <<0, 0>>, <<0, 45>> >>, << <<1, 0>>, <<2, 0>> >>,
                    << <<3, 0>>, <<10, 0>> >>}
DepotWindows == {WideWindow, << <<8, 0>>, <<18, 0>> >>, << <<0, 0>>, <<1, 0>> >>}

Nodes(n) == 0..(n - 1)
Pairs(n) == {p \in SUBSET Nodes(n) : Cardinality(p) = 2}

\* Asymmetric matrices with a zero diagonal: a base value per pair of
\* locations, and a detour added in the direction high index -> low index.
DistanceMatrices(n) ==
  { [i \in Nodes(n) |-> [j \in Nodes(n) |->
       IF i = j THEN 0
       ELSE base[{i, j}] + (IF i > j THEN skew ELSE 0)]] :
    base \in [Pairs(n) -> 1..MaxDist], skew \in {0, 1} }

TimeMatrixOf(dm, n) ==
  [i \in Nodes(n) |-> [j \in Nodes(n) |-> MinutesPerKm * dm[i][j]]]

Row(id, demand, w) ==
  [id |-> id, demand |-> demand, time_window_start |-> w[1], time_window_end |-> w[2]]

DeliveryTables(n, DV, LW, DW) ==
  { [i \in Nodes(n) |-> IF i = 0 THEN Row(0, 0, dw) ELSE Row(i, dem[i], win[i])] :
    dem \in [1..(n - 1) -> DV], win \in [1..(n - 1) -> LW], dw \in DW }

\* --------------------------------------------------------------- state ----
VARIABLES
  DELIVERY,                                                            \* utils.config.DELIVERY
  dm_num_locations, dm_distance_matrix, dm_time_matrix,                \* DistanceMatrix fields
  dm_call, dm_returned,                                                \* last DistanceMatrix call
  at_points, at_distance, at_time,                                     \* one pair of coordinates
  ro_delivery_data, ro_distance_matrix, ro_time_matrix,                \* RouteOptimizer fields
  ro_matrices_from, ro_call, ro_raised,                                \* RouteOptimizer calls
  delivery_data, distance_matrix, time_matrix, num_locations, demands, \* VRPSolver.__init__
  solution, routes, objective_value,                                   \* VRPSolver fields
  solve_args, solve_result,                                            \* last solve_vrp call
  b_pc, unvisited, bl_routes, vehicle_id, route, current,              \* create_baseline_solution
  current_capacity, baseline_stats, prev_baseline,
  o_pc, run_args, optimized_solution, baseline_solution, run_outcome   \* RouteOptimizer

workflowVars == <<ro_delivery_data, ro_distance_matrix, ro_time_matrix,
                  ro_matrices_from, ro_call, ro_raised>>
areaVars == <<at_points, at_distance, at_time>>
matrixVars == <<dm_num_locations, dm_distance_matrix, dm_time_matrix, dm_call, dm_returned>>
inputVars == <<DELIVERY, delivery_data, distance_matrix, time_matrix, num_locations, demands>>
solverVars == <<solution, routes, objective_value, solve_args, solve_result>>
baselineVars == <<b_pc, unvisited, bl_routes, vehicle_id, route, current,
                  current_capacity, baseline_stats, prev_baseline>>
optimizerVars == <<o_pc, run_args, optimized_solution, baseline_solution, run_outcome>>
vars == <<workflowVars, areaVars, matrixVars, inputVars, solverVars, baselineVars, optimizerVars>>

\* ------------------------------------------------------------- helpers ----
Min(S) == CHOOSE x \in S : \A y \in S : x <= y

RECURSIVE SumSeq(_)
SumSeq(s) == IF s = <<>> THEN 0 ELSE s[1] + SumSeq(Tail(s))

Append0(s) == Append(s, 0)

\* self.demands = [0] + delivery_data[delivery_data['id'] != 0]['demand'].tolist()
DemandsOf(dd, n) == [i \in Nodes(n) |-> IF i = 0 THEN 0 ELSE dd[i].demand]

EmptyRoute == [vehicle_id |-> 0, stops |-> <<>>, total_distance |-> 0, total_demand |-> 0]

\* DELIVERY = DeliveryConfig(), with vehicle_capacity possibly reassigned
DeliveryConfig(capacity) ==
  [vehicle_capacity |-> capacity, max_route_duration_hours |-> max_route_duration_hours]

\* RouteOptimizer.__init__: no data, no matrices; no call made yet
NoWorkflow ==
  /\ ro_delivery_data = NoneRec /\ ro_distance_matrix = NoneRec /\ ro_time_matrix = NoneRec
  /\ ro_matrices_from = NoneRec /\ ro_call = NoneRec /\ ro_raised = NoneRec

\* no pair of coordinates is being classified
NoAreaCall == at_points = NoneRec /\ at_distance = NoneRec /\ at_time = NoneRec

\* no DistanceMatrix object is in use
NoMatrixBuilder ==
  /\ dm_num_locations = None /\ dm_distance_matrix = NoneRec /\ dm_time_matrix = NoneRec
  /\ dm_call = NoneRec /\ dm_returned = NoneRec
  /\ NoAreaCall

\* no call has been made on the solver or the optimizer
NothingRun ==
      /\ solution = NoneRec /\ routes = NoneRec /\ objective_value = None
      /\ solve_args = NoneRec /\ solve_result = NoneRec
      /\ b_pc = "idle" /\ unvisited = {} /\ bl_routes = <<>> /\ vehicle_id = 0
      /\ route = EmptyRoute /\ current = 0 /\ current_capacity = 0
      /\ baseline_stats = NoneRec /\ prev_baseline = NoneRec
      /\ o_pc = "idle" /\ run_args = NoneRec /\ optimized_solution = NoneRec
      /\ baseline_solution = NoneRec /\ run_outcome = NoneRec

\* VRPSolver(delivery_data, distance_matrix, time_matrix), RouteOptimizer()
InitSolver(n, dd, dm, capacity) ==
      /\ NoWorkflow
      /\ NoMatrixBuilder
      /\ DELIVERY = DeliveryConfig(capacity)
      /\ delivery_data = dd
      /\ distance_matrix = dm
      /\ time_matrix = TimeMatrixOf(dm, n)
      /\ num_locations = n
      /\ demands = DemandsOf(dd, n)
      /\ NothingRun

InitWith(DV, LW, DW) ==
  \E n \in 2..MaxLocations :
    \E dd \in DeliveryTables(n, DV, LW, DW), dm \in DistanceMatrices(n) :
      InitSolver(n, dd, dm, vehicle_capacity)

Init == InitWith(SolveDemandValues, LocationWindows, DepotWindows)

InitBaseline == InitWith(DemandValues, {WideWindow}, {WideWindow})

\* ------------------------------------------------------ DistanceMatrix ----
\* a stored matrix (self.distance_matrix / self.time_matrix when not None) and
\* the value a call returned
Built(m) == [matrix |-> m]
Returned(v) == [value |-> v]

\* _calculate_travel_time: minutes per km, 60 / (base_speed * speed_factor);
\* with the urban speed of 30 km/h and a factor in [0.7, 1.0], 2 to 3
TravelMinutesPerKm == {2, 3}

\* if i != j: only these entries of np.zeros((n, n)) are assigned
OffDiagonal_All(i, j) == TRUE

OffDiagonal(i, j) == i # j

\* the matrices one run of the loops of compute_distance_matrix can produce:
\* _calculate_realistic_distance draws a detour factor for every entry
NewDistanceMatrices(n) ==
  { [i \in Nodes(n) |-> [j \in Nodes(n) |-> IF OffDiagonal(i, j) THEN d[i][j] ELSE 0]] :
    d \in [Nodes(n) -> [Nodes(n) -> 1..MaxDist]] }

\* the matrices one run of the loops of compute_time_matrix can produce from
\* the stored distances: _calculate_travel_time draws a speed factor for every entry
NewTimeMatrices(n, dist) ==
  { [i \in Nodes(n) |-> [j \in Nodes(n) |->
       IF OffDiagonal(i, j) THEN dist[i][j] * f[i][j] ELSE 0]] :
    f \in [Nodes(n) -> [Nodes(n) -> TravelMinutesPerKm]] }

\* if self.distance_matrix is not None and use_cache: return self.distance_matrix
UseCache_Never(stored, use_cache) == FALSE

UseCache(stored, use_cache) == stored # NoneRec /\ use_cache

\* compute_distance_matrix(use_cache): the distance matrix stored afterwards
\* (it is also the value returned)
DistanceOutcomes(stored, n, use_cache) ==
  IF UseCache(stored, use_cache) THEN {stored}
  ELSE {Built(m) : m \in NewDistanceMatrices(n)}

\* compute_time_matrix(use_cache): the <<distance, time>> matrices stored
\* afterwards; the distances are computed first when there are none
TimeOutcomes(storedT, storedD, n, use_cache) ==
  IF UseCache(storedT, use_cache) THEN {<<storedD, storedT>>}
  ELSE UNION { {<<d, Built(t)>> : t \in NewTimeMatrices(n, d.matrix)} :
               d \in (IF storedD = NoneRec THEN DistanceOutcomes(storedD, n, TRUE)
                                            ELSE {storedD}) }

Call(name, use_cache, i, j) == [name |-> name, use_cache |-> use_cache, i |-> i, j |-> j]

compute_distance_matrix(use_cache) ==
  /\ dm_num_locations # None
  /\ \E d \in DistanceOutcomes(dm_distance_matrix, dm_num_locations, use_cache) :
       /\ dm_distance_matrix' = d
       /\ dm_returned' = Returned(d.matrix)
  /\ dm_call' = Call("compute_distance_matrix", use_cache, None, None)
  /\ UNCHANGED <<dm_num_locations, dm_time_matrix>>
  /\ UNCHANGED <<workflowVars, areaVars, inputVars, solverVars, baselineVars, optimizerVars>>

compute_time_matrix(use_cache) ==
  /\ dm_num_locations # None
  /\ \E p \in TimeOutcomes(dm_time_matrix, dm_distance_matrix, dm_num_locations, use_cache) :
       /\ dm_distance_matrix' = p[1]
       /\ dm_time_matrix' = p[2]
       /\ dm_returned' = Returned(p[2].matrix)
  /\ dm_call' = Call("compute_time_matrix", use_cache, None, None)
  /\ UNCHANGED dm_num_locations
  /\ UNCHANGED <<workflowVars, areaVars, inputVars, solverVars, baselineVars, optimizerVars>>

get_distance(from_location, to_location) ==
  /\ dm_num_locations # None
  /\ \E d \in (IF dm_distance_matrix = NoneRec
                THEN DistanceOutcomes(dm_distance_matrix, dm_num_locations, TRUE)
                ELSE {dm_distance_matrix}) :
       /\ dm_distance_matrix' = d
       /\ dm_returned' = Returned(d.matrix[from_location][to_location])
  /\ dm_call' = Call("get_distance", TRUE, from_location, to_location)
  /\ UNCHANGED <<dm_num_locations, dm_time_matrix>>
  /\ UNCHANGED <<workflowVars, areaVars, inputVars, solverVars, baselineVars, optimizerVars>>

get_travel_time(from_location, to_location) ==
  /\ dm_num_locations # None
  /\ \E p \in (IF dm_time_matrix = NoneRec
                THEN TimeOutcomes(dm_time_matrix, dm_distance_matrix, dm_num_locations, TRUE)
                ELSE {<<dm_distance_matrix, dm_time_matrix>>}) :
       /\ dm_distance_matrix' = p[1]
       /\ dm_time_matrix' = p[2]
       /\ dm_returned' = Returned(p[2].matrix[from_location][to_location])
  /\ dm_call' = Call("get_travel_time", TRUE, from_location, to_location)
  /\ UNCHANGED dm_num_locations
  /\ UNCHANGED <<workflowVars, areaVars, inputVars, solverVars, baselineVars, optimizerVars>>

get_matrices ==
  /\ dm_num_locations # None
  /\ \E d \in DistanceOutcomes(dm_distance_matrix, dm_num_locations, TRUE) :
       \E p \in TimeOutcomes(dm_time_matrix, d, dm_num_locations, TRUE) :
         /\ dm_distance_matrix' = p[1]
         /\ dm_time_matrix' = p[2]
         /\ dm_returned' = Returned(<<p[1].matrix, p[2].matrix>>)
  /\ dm_call' = Call("get_matrices", TRUE, None, None)
  /\ UNCHANGED dm_num_locations
  /\ UNCHANGED <<workflowVars, areaVars, inputVars, solverVars, baselineVars, optimizerVars>>

\* DistanceMatrix(delivery_data) for a table of any length, 0 and 1 included;
\* no VRPSolver has been constructed
InitMatrix ==
  /\ NoWorkflow
  /\ NoAreaCall
  /\ dm_num_locations \in 0..MaxMatrixLocations
  /\ dm_distance_matrix = NoneRec /\ dm_time_matrix = NoneRec
  /\ dm_call = NoneRec /\ dm_returned = NoneRec
  /\ DELIVERY = DeliveryConfig(vehicle_capacity)
  /\ delivery_data = NoneRec /\ distance_matrix = NoneRec /\ time_matrix = NoneRec
  /\ num_locations = None /\ demands = NoneRec
  /\ NothingRun

NextMatrix ==
  \/ \E use_cache \in BOOLEAN : compute_distance_matrix(use_cache)
  \/ \E use_cache \in BOOLEAN : compute_time_matrix(use_cache)
  \/ \E i, j \in Nodes(dm_num_locations) : get_distance(i, j)
  \/ \E i, j \in Nodes(dm_num_locations) : get_travel_time(i, j)
  \/ get_matrices

SpecMatrix == InitMatrix /\ [][NextMatrix]_vars

\* ------------------------------------------- _determine_area_type ----
\* Coordinates are points of one great circle through the urban center, given
\* by their signed distance from it in km; distances are kept in tenths of a km.
Points == {0 - 16, 0, 10, 11, 15, 16}

\* haversine(a, b): the great-circle distance of two points, in km
haversine(a, b) == IF a >= b THEN a - b ELSE b - a

_determine_area_type_NoRuralMargin(p1, p2) ==
  LET dist1 == haversine(urban_center, p1)
      dist2 == haversine(urban_center, p2)
  IN IF dist1 <= urban_radius_km /\ dist2 <= urban_radius_km THEN "urban"
     ELSE IF dist1 > urban_radius_km /\ dist2 > urban_radius_km THEN "rural"
     ELSE "mixed"

_determine_area_type_ByOrigin(p1, p2) ==
  LET dist1 == haversine(urban_center, p1)
  IN IF dist1 <= urban_radius_km THEN "urban"
     ELSE IF 2 * dist1 > 3 * urban_radius_km THEN "rural"
     ELSE "mixed"

\* dist > urban_radius_km * 1.5 is 2 * dist > 3 * urban_radius_km
_determine_area_type(p1, p2) ==
  LET dist1 == haversine(urban_center, p1)
      dist2 == haversine(urban_center, p2)
  IN IF dist1 <= urban_radius_km /\ dist2 <= urban_radius_km THEN "urban"
     ELSE IF 2 * dist1 > 3 * urban_radius_km /\ 2 * dist2 > 3 * urban_radius_km THEN "rural"
     ELSE "mixed"

\* np.random.uniform(lo, hi) for the detour factor, in tenths: both ends of the range
DetourFactors(route_type) ==
  CASE route_type = "urban" -> {13, 16}
    [] route_type = "rural" -> {11, 13}
    [] OTHER -> {12, 14}

\* base_speed in km/h, and np.random.uniform(lo, 1.0) for the speed factor in percent
BaseSpeed(route_type) ==
  CASE route_type = "urban" -> urban_speed_kmh
    [] route_type = "rural" -> rural_speed_kmh
    [] OTHER -> (urban_speed_kmh * 6 + rural_speed_kmh * 4) \div 10

SpeedFactors(route_type) ==
  CASE route_type = "urban" -> {70, 100}
    [] route_type = "rural" -> {90, 100}
    [] OTHER -> {80, 100}

\* the values _calculate_realistic_distance can return (tenths of a km), each
\* with the route_type it was computed for
_calculate_realistic_distance(p1, p2) ==
  LET straight_distance == haversine(p1, p2)
      route_type == _determine_area_type(p1, p2)
  IN {[route_type |-> route_type, value |-> straight_distance * detour_factor] :
        detour_factor \in DetourFactors(route_type)}

\* the values _calculate_travel_time can return (minutes, rounded down), each
\* with the route_type it was computed for; distance_km is in tenths of a km
_calculate_travel_time(distance_km, p1, p2) ==
  LET route_type == _determine_area_type(p1, p2)
  IN {[route_type |-> route_type,
       value |-> (distance_km * 600) \div (BaseSpeed(route_type) * speed_factor)] :
        speed_factor \in SpeedFactors(route_type)}

\* the ordered pair (i, j) of the two locations, and the ordered pair (j, i)
Directions == {"ij", "ji"}

PointsOf(dir) == IF dir = "ij" THEN at_points ELSE <<at_points[2], at_points[1]>>

\* compute_distance_matrix, line 127, for one ordered pair
CalculateRealisticDistance(dir) ==
  /\ \E r \in _calculate_realistic_distance(PointsOf(dir)[1], PointsOf(dir)[2]) :
       at_distance' = [at_distance EXCEPT ![dir] = r]
  /\ UNCHANGED <<at_points, at_time>>
  /\ UNCHANGED <<workflowVars, matrixVars, inputVars, solverVars, baselineVars, optimizerVars>>

\* compute_time_matrix, lines 161-165, for one ordered pair: the distance of
\* the pair has been computed (lines 149-150)
CalculateTravelTime(dir) ==
  /\ at_distance[dir] # NoneRec
  /\ \E r \in _calculate_travel_time(at_distance[dir].value,
                                      PointsOf(dir)[1], PointsOf(dir)[2]) :
       at_time' = [at_time EXCEPT ![dir] = r]
  /\ UNCHANGED <<at_points, at_distance>>
  /\ UNCHANGED <<workflowVars, matrixVars, inputVars, solverVars, baselineVars, optimizerVars>>

\* two locations with any coordinates; nothing computed yet
InitAreaType ==
  /\ NoWorkflow
  /\ at_points \in Points \X Points
  /\ at_distance = [dir \in Directions |-> NoneRec]
  /\ at_time = [dir \in Directions |-> NoneRec]
  /\ dm_num_locations = None /\ dm_distance_matrix = NoneRec /\ dm_time_matrix = NoneRec
  /\ dm_call = NoneRec /\ dm_returned = NoneRec
  /\ DELIVERY = DeliveryConfig(vehicle_capacity)
  /\ delivery_data = NoneRec /\ distance_matrix = NoneRec /\ time_matrix = NoneRec
  /\ num_locations = None /\ demands = NoneRec
  /\ NothingRun

NextAreaType ==
  \/ \E dir \in Directions : CalculateRealisticDistance(dir)
  \/ \E dir \in Directions : CalculateTravelTime(dir)

SpecAreaType == InitAreaType /\ [][NextAreaType]_vars

\* ------------------------------------------- create_baseline_solution ----
\* for location in unvisited: if distance < nearest_distance: nearest = location
\* (CPython iterates a set of small ints in ascending order; nearest_distance
\* starts at float('inf'), i.e. while nearest is None every distance is smaller)
RECURSIVE NearestScan(_, _, _, _)
NearestScan(cur, locs, nearest, nearest_distance) ==
  IF locs = {} THEN nearest
  ELSE LET location == Min(locs)
           distance == distance_matrix[cur][location]
       IN IF nearest = None \/ distance < nearest_distance
          THEN NearestScan(cur, locs \ {location}, location, distance)
          ELSE NearestScan(cur, locs \ {location}, nearest, nearest_distance)

NearestCandidates_AnyTie(cur, locs) ==
  {l \in locs : \A m \in locs : distance_matrix[cur][l] <= distance_matrix[cur][m]}

NearestCandidates_HighestTie(cur, locs) ==
  {l \in locs : \A m \in locs :
     \/ distance_matrix[cur][l] < distance_matrix[cur][m]
     \/ distance_matrix[cur][l] = distance_matrix[cur][m] /\ l >= m}

NearestCandidates_EarliestDeadline(cur, locs) ==
  LET deadline(l) == delivery_data[l].time_window_end[1] * 60
                       + delivery_data[l].time_window_end[2]
  IN {l \in locs : \A m \in locs :
        \/ deadline(l) < deadline(m)
        \/ deadline(l) = deadline(m) /\ l <= m}

NearestCandidates_AfterSolve(cur, locs) ==
  IF solve_result = NoneRec THEN {NearestScan(cur, locs, None, 0)}
  ELSE {l \in locs : \A m \in locs : l >= m}

NearestCandidates(cur, locs) == {NearestScan(cur, locs, None, 0)}

\* while unvisited and current_capacity < DELIVERY.vehicle_capacity * 0.9
InnerLoopCondition_NoThreshold(unv, cap) == unv # {}

InnerLoopCondition(unv, cap) == unv # {} /\ 10 * cap < 9 * DELIVERY.vehicle_capacity

\* if current_capacity + demand > DELIVERY.vehicle_capacity: break
OverCapacity_Off(cap, demand) == FALSE

OverCapacity_IgnoresLoad(cap, demand) == demand > DELIVERY.vehicle_capacity

OverCapacity(cap, demand) == cap + demand > DELIVERY.vehicle_capacity

BaselineStats(rs) ==
  [total_distance |-> SumSeq([k \in 1..Len(rs) |-> rs[k].total_distance]),
   total_demand_served |-> SumSeq([k \in 1..Len(rs) |-> rs[k].total_demand]),
   num_vehicles_used |-> Len(rs),
   routes |-> rs]

\* entry of create_baseline_solution: unvisited = set(range(1, n)); routes = []
BaselineEnter ==
  /\ b_pc \in {"idle", "done"}
  /\ b_pc' = "outer"
  /\ unvisited' = 1..(num_locations - 1)
  /\ bl_routes' = <<>>
  /\ vehicle_id' = 0
  /\ prev_baseline' = baseline_stats
  /\ UNCHANGED <<route, current, current_capacity, baseline_stats>>

\* while unvisited: open a route at the depot; otherwise build and return the stats
BaselineOuter ==
  /\ b_pc = "outer"
  /\ IF unvisited # {}
     THEN /\ route' = [vehicle_id |-> vehicle_id, stops |-> <<0>>,
                       total_distance |-> 0, total_demand |-> 0]
          /\ current' = 0
          /\ current_capacity' = 0
          /\ b_pc' = "inner"
          /\ UNCHANGED baseline_stats
     ELSE /\ baseline_stats' = BaselineStats(bl_routes)
          /\ b_pc' = "done"
          /\ UNCHANGED <<route, current, current_capacity>>
  /\ UNCHANGED <<unvisited, bl_routes, vehicle_id, prev_baseline>>

\* one iteration of the inner while loop
BaselineInner ==
  /\ b_pc = "inner"
  /\ IF InnerLoopCondition(unvisited, current_capacity)
     THEN \E nearest \in NearestCandidates(current, unvisited) :
            LET nearest_distance == distance_matrix[current][nearest]
                demand == demands[nearest]
            IN IF OverCapacity(current_capacity, demand)
               THEN /\ b_pc' = "close"
                    /\ UNCHANGED <<route, current_capacity, unvisited, current>>
               ELSE /\ route' = [route EXCEPT
                                   !.stops = Append(@, nearest),
                                   !.total_distance = @ + nearest_distance,
                                   !.total_demand = @ + demand]
                    /\ current_capacity' = current_capacity + demand
                    /\ unvisited' = unvisited \ {nearest}
                    /\ current' = nearest
                    /\ b_pc' = "inner"
     ELSE /\ b_pc' = "close"
          /\ UNCHANGED <<route, current_capacity, unvisited, current>>
  /\ UNCHANGED <<bl_routes, vehicle_id, baseline_stats, prev_baseline>>

\* return_distance = self.distance_matrix[current][0]
ReturnDistance_Zero(cur) == 0

ReturnDistance_FromDepot(cur) == distance_matrix[0][cur]

ReturnDistance(cur) == distance_matrix[cur][0]

\* Return to depot: if len(route['stops']) > 1: ... routes.append(route)
BaselineClose ==
  /\ b_pc = "close"
  /\ IF Len(route.stops) > 1
     THEN /\ bl_routes' = Append(bl_routes,
                 [route EXCEPT !.stops = Append0(@),
                               !.total_distance = @ + ReturnDistance(current)])
          /\ vehicle_id' = vehicle_id + 1
     ELSE UNCHANGED <<bl_routes, vehicle_id>>
  /\ b_pc' = "outer"
  /\ UNCHANGED <<unvisited, route, current, current_capacity, baseline_stats, prev_baseline>>

BaselineStep == BaselineOuter \/ BaselineInner \/ BaselineClose

\* a direct call of VRPSolver.create_baseline_solution
CreateBaselineSolution ==
  /\ o_pc = "idle"
  /\ BaselineEnter
  /\ UNCHANGED <<workflowVars, areaVars, matrixVars, inputVars, solverVars, optimizerVars>>

BaselineRun ==
  /\ BaselineStep
  /\ UNCHANGED <<workflowVars, areaVars, matrixVars, inputVars, solverVars, optimizerVars>>

NextBaseline == CreateBaselineSolution \/ BaselineRun

SpecBaseline == InitBaseline /\ [][NextBaseline]_vars

\* a running loop takes its next step
SpecBaselineFair == SpecBaseline /\ WF_vars(BaselineRun)

\* create_baseline_solution on solvers whose tables have any time windows
InitBaselineWindows == InitWith(DemandValues, LocationWindows, DepotWindows)

SpecBaselineWindows == InitBaselineWindows /\ [][NextBaseline]_vars

\* a solver for one more location than solve_vrp is explored with, so that a
\* route under construction can have a nearest and a farther unvisited location
BaselineLocations == MaxLocations + 1

InitBaselineLarge ==
  \E dd \in DeliveryTables(BaselineLocations, DemandValues, {WideWindow}, {WideWindow}),
     dm \in DistanceMatrices(BaselineLocations) :
    InitSolver(BaselineLocations, dd, dm, vehicle_capacity)

SpecBaselineLarge == InitBaselineLarge /\ [][NextBaseline]_vars

\* The scenario of test_core.py: 1 depot + 5 deliveries, demands
\* [0, 10, 15, 8, 12, 6], vehicles of capacity 30, any symmetric distance matrix.
ScenarioLocations == 6
ScenarioDemands == <<10, 15, 8, 12, 6>>
ScenarioCapacity == 30

ScenarioMatrices ==
  { [i \in Nodes(ScenarioLocations) |-> [j \in Nodes(ScenarioLocations) |->
       IF i = j THEN 0 ELSE base[{i, j}]]] :
    base \in [Pairs(ScenarioLocations) -> 1..MaxDist] }

InitScenario ==
  \E dm \in ScenarioMatrices :
    InitSolver(ScenarioLocations,
               [i \in Nodes(ScenarioLocations) |->
                  IF i = 0 THEN Row(0, 0, WideWindow)
                  ELSE Row(i, ScenarioDemands[i], WideWindow)],
               dm, ScenarioCapacity)

\* one call of create_baseline_solution on the scenario's solver
ScenarioBaseline ==
  /\ b_pc = "idle"
  /\ CreateBaselineSolution

NextScenario == ScenarioBaseline \/ BaselineRun

SpecScenario == InitScenario /\ [][NextScenario]_vars

SpecScenarioFair == SpecScenario /\ WF_vars(BaselineRun)

\* ------------------------------------------------------------ solve_vrp ----
Max2(a, b) == IF a >= b THEN a ELSE b
Min2(a, b) == IF a <= b THEN a ELSE b

\* _create_data_model: num_vehicles defaults to min(max_vehicles, max(3, n // 5))
_create_data_model(num_vehicles) ==
  [num_vehicles |-> IF num_vehicles = None
                    THEN Min2(max_vehicles, Max2(3, num_locations \div 5))
                    ELSE num_vehicles,
   depot |-> 0]

\* _time_to_minutes: "HH:MM" -> hour * 60 + minute
_time_to_minutes(time_str) == time_str[1] * 60 + time_str[2]

_create_time_windows ==
  [i \in Nodes(num_locations) |->
     <<_time_to_minutes(delivery_data[i].time_window_start),
       _time_to_minutes(delivery_data[i].time_window_end)>>]

\* The values of the routing model's NextVar: every vehicle drives
\* depot -> its stops -> depot, and every location is on exactly one vehicle.
Perms(S) ==
  {p \in [1..Cardinality(S) -> S] : \A i, j \in 1..Cardinality(S) : p[i] = p[j] => i = j}

Cuts(V, m) ==
  {c \in [0..V -> 0..m] : c[0] = 0 /\ c[V] = m /\ \A v \in 0..(V - 1) : c[v] <= c[v + 1]}

Assignments(V) ==
  LET m == num_locations - 1
  IN { [v \in 0..(V - 1) |-> SubSeq(p, c[v] + 1, c[v + 1])] :
       p \in Perms(1..m), c \in Cuts(V, m) }

\* the indices a vehicle passes: Start(v), its stops, End(v)
PathOf(stops) == <<0>> \o stops \o <<0>>

\* arc costs are the distance callback's values
ArcSum(path) ==
  SumSeq([k \in 1..(Len(path) - 1) |-> distance_matrix[path[k]][path[k + 1]]])

\* AddDimensionWithVehicleCapacity(demand_callback, 0, capacities, True, 'Capacity'):
\* the cumul starts at 0, grows by the demand of the node left, and stays in
\* [0, capacity] at every index of the path
CapacityCumul(path, k) == SumSeq([i \in 1..(k - 1) |-> demands[path[i]]])

CapacityFeasible(stops) ==
  \A k \in 1..(Len(stops) + 2) :
    /\ CapacityCumul(PathOf(stops), k) >= 0
    /\ CapacityCumul(PathOf(stops), k) <= DELIVERY.vehicle_capacity

\* AddDimension(time_callback, 30, max_route_duration_hours * 60, False, 'Time'):
\* every cumul lies in [0, capacity of the dimension]
TimeHorizon == <<0, max_route_duration_hours * 60>>

Meet(a, b) == <<Max2(a[1], b[1]), Min2(a[2], b[2])>>
IsEmptyRange(a) == a[1] > a[2]

\* CumulVar(index).SetRange(...): the locations (lines 181-185) and the start
\* of every vehicle (lines 189-193); the end of a vehicle gets no range
CumulRange_NoLocationWindow(path, k) ==
  IF k = 1 THEN Meet(TimeHorizon, _create_time_windows[0]) ELSE TimeHorizon

CumulRange_NoWindowEnd(path, k) ==
  IF k = 1 THEN Meet(TimeHorizon, _create_time_windows[0])
  ELSE IF k = Len(path) THEN TimeHorizon
  ELSE Meet(TimeHorizon, <<_create_time_windows[path[k]][1], TimeHorizon[2]>>)

CumulRange(path, k) ==
  IF k = 1 THEN Meet(TimeHorizon, _create_time_windows[0])
  ELSE IF k = Len(path) THEN TimeHorizon
  ELSE Meet(TimeHorizon, _create_time_windows[path[k]])

\* cumul(next) = cumul(index) + transit(index, next) + slack, 0 <= slack <= 30:
\* the bounds of every cumul after propagation along the path, both ways
ForwardCumul_NoSlack(path) ==
  LET F[k \in 1..Len(path)] ==
        IF k = 1 THEN CumulRange(path, 1)
        ELSE LET t == time_matrix[path[k - 1]][path[k]]
                 prev == F[k - 1]
             IN Meet(<<prev[1] + t, prev[2] + t>>, CumulRange(path, k))
  IN F

ForwardCumul(path) ==
  LET F[k \in 1..Len(path)] ==
        IF k = 1 THEN CumulRange(path, 1)
        ELSE LET t == time_matrix[path[k - 1]][path[k]]
                 prev == F[k - 1]
             IN Meet(<<prev[1] + t, prev[2] + t + waiting_slack>>,
                     CumulRange(path, k))
  IN F

TimeCumul(path) ==
  LET F == ForwardCumul(path)
      B[k \in 1..Len(path)] ==
        IF k = Len(path) THEN F[k]
        ELSE LET t == time_matrix[path[k]][path[k + 1]]
                 next == B[k + 1]
             IN Meet(F[k], <<next[1] - t - waiting_slack, next[2] - t>>)
  IN B

TimeFeasible(stops) ==
  LET F == ForwardCumul(PathOf(stops))
  IN \A k \in 1..(Len(stops) + 2) : ~IsEmptyRange(F[k])

\* the assignments SolveWithParameters may return
FeasibleAssignments(V, include_time_windows) ==
  {a \in Assignments(V) :
     \A v \in 0..(V - 1) :
       /\ CapacityFeasible(a[v])
       /\ include_time_windows => TimeFeasible(a[v])}

\* solution.ObjectiveValue(): the arc costs of all vehicles, return arcs included
ObjectiveValue(a, V) == SumSeq([k \in 1..V |-> ArcSum(PathOf(a[k - 1]))])

\* _extract_routes, the walk of one vehicle: stops collected until IsEnd, arc
\* costs added only while the next index is not the end
RouteDistance(stops) == ArcSum(stops)

\* route_demand += data['demands'][node_index]
RouteDemand_LastOnly(stops) ==
  IF stops[Len(stops)] # 0 THEN demands[stops[Len(stops)]] ELSE 0

RouteDemand(stops) ==
  SumSeq([k \in 1..Len(stops) |-> IF stops[k] # 0 THEN demands[stops[k]] ELSE 0])

\* if len(route['stops']) > 1:  # Only if vehicle actually made deliveries
MadeDeliveries_AtLeastTwo(stops) == Len(stops) > 2

MadeDeliveries(stops) == Len(stops) > 1

ExtractRoute(v, visited) ==
  LET stops == <<0>> \o visited
  IN [vehicle_id |-> v,
      stops |-> IF MadeDeliveries(stops) THEN Append0(stops) ELSE <<>>,
      total_distance |-> IF MadeDeliveries(stops) THEN RouteDistance(stops) ELSE 0,
      total_demand |-> IF MadeDeliveries(stops) THEN RouteDemand(stops) ELSE 0,
      total_time |-> 0]

IsAppended(r) == r.stops # <<>>

_extract_routes(a, V) ==
  SelectSeq([k \in 1..V |-> ExtractRoute(k - 1, a[k - 1])], IsAppended)

_create_solution_dict(rs, objective) ==
  [status |-> "optimal",
   objective_value |-> objective,
   num_vehicles_used |-> Len(SelectSeq(rs, IsAppended)),
   total_distance |-> SumSeq([k \in 1..Len(rs) |-> rs[k].total_distance]),
   total_demand_served |-> SumSeq([k \in 1..Len(rs) |-> rs[k].total_demand]),
   routes |-> rs,
   unassigned_customers |-> <<>>]

NoSolution == [status |-> "no_solution"]

\* RoutingIndexManager / RoutingModel given no vehicle: the library, not this
\* code, decides what happens (it fails, or builds a model without solutions)
LibraryFailure == [status |-> "library_failure"]

\* the body of solve_vrp; `result` is the value it returns
SolveBody(num_vehicles, include_time_windows, result) ==
  LET data == _create_data_model(num_vehicles)
      V == data.num_vehicles
  IN /\ solve_args' = [num_vehicles |-> V, include_time_windows |-> include_time_windows]
     /\ \/ \E a \in FeasibleAssignments(V, include_time_windows) :
             /\ solution' = [next |-> a,
                             time |-> IF include_time_windows
                                      THEN [v \in 0..(V - 1) |-> TimeCumul(PathOf(a[v]))]
                                      ELSE NoneRec]
             /\ objective_value' = ObjectiveValue(a, V)
             /\ routes' = _extract_routes(a, V)
             /\ result = _create_solution_dict(routes', objective_value')
        \/ \* No solution found (none exists, or the search found none in time)
           /\ result = NoSolution
           /\ UNCHANGED <<solution, routes, objective_value>>
        \/ /\ V < 1
           /\ result = LibraryFailure
           /\ UNCHANGED <<solution, routes, objective_value>>

\* a direct call of VRPSolver.solve_vrp on a newly constructed solver
SolveVrp(num_vehicles, include_time_windows) ==
  /\ o_pc = "idle" /\ b_pc \in {"idle", "done"}
  /\ solve_args = NoneRec
  /\ SolveBody(num_vehicles, include_time_windows, solve_result')
  /\ UNCHANGED <<workflowVars, areaVars, matrixVars, inputVars, baselineVars, optimizerVars>>

NextSolve == \E nv \in VehicleArgs, tw \in BOOLEAN : SolveVrp(nv, tw)

SpecSolve == Init /\ [][NextSolve]_vars

\* solve_vrp and create_baseline_solution called on one solver, one call at a
\* time, in any order
NextEitherOrder ==
  \/ \E nv \in VehicleArgs, tw \in BOOLEAN : SolveVrp(nv, tw)
  \/ CreateBaselineSolution
  \/ BaselineRun

\* solvers with a wide or a narrow window per location
InitEitherOrder ==
  InitWith(SolveDemandValues, {WideWindow, << <<0, 0>>, <<0, 45>> >>}, {WideWindow})

SpecEitherOrder == InitEitherOrder /\ [][NextEitherOrder]_vars

\* Inputs no check of __init__, _create_data_model or solve_vrp rejects: a
\* negative demand, a window that ends before it starts, a vehicle capacity of
\* zero, a fleet of zero vehicles (next to well-formed ones).
AnyDemandValues == {0 - 5, 40}
AnyWindows == {WideWindow, << <<2, 0>>, <<1, 0>> >>}
AnyCapacities == {0, vehicle_capacity}
AnyVehicleArgs == {None, 0}

InitAnyInput ==
  \E n \in 2..MaxLocations :
    \E dd \in DeliveryTables(n, AnyDemandValues, AnyWindows, {WideWindow}),
       dm \in DistanceMatrices(n), capacity \in AnyCapacities :
      InitSolver(n, dd, dm, capacity)

NextAnyInput ==
  \/ \E nv \in AnyVehicleArgs, tw \in BOOLEAN : SolveVrp(nv, tw)
  \/ CreateBaselineSolution
  \/ BaselineRun

SpecAnyInput == InitAnyInput /\ [][NextAnyInput]_vars

\* ------------------------------------------ RouteOptimizer.run_optimization ----
KeyError == [raised |-> "KeyError"]

\* _calculate_improvement_metrics: reads optimized_solution['total_distance'] and
\* ['num_vehicles_used'], keys a no_solution result does not have
_calculate_improvement_metrics(baseline, optimized) ==
  IF baseline = NoneRec \/ optimized = NoneRec THEN [empty |-> TRUE]
  ELSE IF "total_distance" \notin DOMAIN optimized THEN KeyError
  ELSE [distance_reduction_km |-> baseline.total_distance - optimized.total_distance,
        vehicle_reduction |-> baseline.num_vehicles_used - optimized.num_vehicles_used]

\* _create_optimization_results: the results dictionary, or the exception raised
_create_optimization_results(optimized, baseline) ==
  LET metrics == IF baseline # NoneRec
                 THEN _calculate_improvement_metrics(baseline, optimized)
                 ELSE [empty |-> TRUE]
  IN IF metrics = KeyError
     THEN [kind |-> "raised", exception |-> "KeyError", solver_status |-> "none",
           improvement_metrics |-> [empty |-> TRUE]]
     ELSE [kind |-> "returned", exception |-> "none", solver_status |-> optimized.status,
           improvement_metrics |-> metrics]

\* run_optimization, lines 115-134: a new VRPSolver solves, then the baseline is
\* requested (one run per optimizer)
RunOptimizationSolve(num_vehicles, include_time_windows, create_baseline) ==
  /\ b_pc = "idle"
  /\ solve_args = NoneRec
  /\ run_args' = [num_vehicles |-> num_vehicles,
                  include_time_windows |-> include_time_windows,
                  create_baseline |-> create_baseline]
  /\ SolveBody(num_vehicles, include_time_windows, optimized_solution')
  /\ solve_result' = optimized_solution'
  /\ IF create_baseline
     THEN /\ o_pc' = "baseline"
          /\ BaselineEnter
     ELSE /\ o_pc' = "results"
          /\ UNCHANGED baselineVars
  /\ UNCHANGED <<workflowVars, areaVars, matrixVars, inputVars, baseline_solution, run_outcome>>

\* run_optimization on an optimizer that holds data and matrices
RunOptimization(num_vehicles, include_time_windows, create_baseline) ==
  /\ o_pc = "idle"
  /\ RunOptimizationSolve(num_vehicles, include_time_windows, create_baseline)

\* run_optimization, lines 134-146: the baseline has returned (or was not
\* requested); the results are built and returned, or building them raises
RunOptimizationResults ==
  /\ \/ o_pc = "baseline" /\ b_pc = "done"
     \/ o_pc = "results"
  /\ baseline_solution' = IF run_args.create_baseline THEN baseline_stats ELSE NoneRec
  /\ run_outcome' = _create_optimization_results(optimized_solution, baseline_solution')
  /\ o_pc' = "done"
  /\ UNCHANGED <<workflowVars, areaVars, matrixVars, inputVars, solverVars, baselineVars, run_args, optimized_solution>>

RunBaseline ==
  /\ o_pc = "baseline"
  /\ BaselineRun

Next ==
  \/ \E nv \in VehicleArgs, tw \in BOOLEAN, cb \in BOOLEAN : RunOptimization(nv, tw, cb)
  \/ RunBaseline
  \/ RunOptimizationResults

Spec == Init /\ [][Next]_vars

\* ------------------------------------------- RouteOptimizer, the call order ----
\* the scenarios generate_delivery_scenario can produce: tables of
\* WorkflowLocations rows
WorkflowLocations == 2

WorkflowTables ==
  DeliveryTables(WorkflowLocations, SolveDemandValues, {WideWindow}, {WideWindow})

Generated(table) == [table |-> table]

ValueError == [raised |-> "ValueError"]

\* a method of the optimizer can be called: none is running
NoCallRunning == o_pc \in {"idle", "done"}

\* generate_delivery_scenario: self.delivery_data = delivery_data
generate_delivery_scenario ==
  /\ NoCallRunning
  /\ \E table \in WorkflowTables : ro_delivery_data' = Generated(table)
  /\ ro_call' = [name |-> "generate_delivery_scenario"]
  /\ ro_raised' = NoneRec
  /\ UNCHANGED <<ro_distance_matrix, ro_time_matrix, ro_matrices_from>>
  /\ UNCHANGED <<areaVars, matrixVars, inputVars, solverVars, baselineVars, optimizerVars>>

\* if self.delivery_data is None: raise ValueError
NoDeliveryData(data) == data = NoneRec

\* calculate_distance_matrices: a DistanceMatrix of the stored data computes
\* both matrices, which are stored
calculate_distance_matrices ==
  /\ NoCallRunning
  /\ ro_call' = [name |-> "calculate_distance_matrices"]
  /\ IF NoDeliveryData(ro_delivery_data)
     THEN /\ ro_raised' = ValueError
          /\ UNCHANGED <<ro_distance_matrix, ro_time_matrix, ro_matrices_from>>
     ELSE /\ \E dm \in DistanceMatrices(WorkflowLocations) :
               /\ ro_distance_matrix' = Built(dm)
               /\ ro_time_matrix' = Built(TimeMatrixOf(dm, WorkflowLocations))
          /\ ro_matrices_from' = ro_delivery_data
          /\ ro_raised' = NoneRec
  /\ UNCHANGED ro_delivery_data
  /\ UNCHANGED <<areaVars, matrixVars, inputVars, solverVars, baselineVars, optimizerVars>>

\* if self.delivery_data is None or self.distance_matrix is None: raise ValueError
MissingForOptimization_DataOnly(data, dist) == data = NoneRec

MissingForOptimization(data, dist) == data = NoneRec \/ dist = NoneRec

\* the array handed to VRPSolver for a stored matrix (None stays None)
MatrixOf(stored) == IF stored = NoneRec THEN NoneRec ELSE stored.matrix

\* run_optimization, lines 115-122: the check of the prerequisites, then
\* solver = VRPSolver(self.delivery_data, self.distance_matrix, self.time_matrix)
run_optimization ==
  /\ NoCallRunning
  /\ ro_call' = [name |-> "run_optimization"]
  /\ IF MissingForOptimization(ro_delivery_data, ro_distance_matrix)
     THEN /\ ro_raised' = ValueError
          /\ UNCHANGED <<inputVars, solverVars, baselineVars, optimizerVars>>
     ELSE /\ ro_raised' = NoneRec
          /\ DELIVERY' = DELIVERY
          /\ delivery_data' = ro_delivery_data.table
          /\ distance_matrix' = MatrixOf(ro_distance_matrix)
          /\ time_matrix' = MatrixOf(ro_time_matrix)
          /\ num_locations' = WorkflowLocations
          /\ demands' = DemandsOf(ro_delivery_data.table, WorkflowLocations)
          /\ solution' = NoneRec /\ routes' = NoneRec /\ objective_value' = None
          /\ solve_args' = NoneRec /\ solve_result' = NoneRec
          /\ b_pc' = "idle" /\ unvisited' = {} /\ bl_routes' = <<>> /\ vehicle_id' = 0
          /\ route' = EmptyRoute /\ current' = 0 /\ current_capacity' = 0
          /\ baseline_stats' = NoneRec /\ prev_baseline' = NoneRec
          /\ o_pc' = "built"
          /\ UNCHANGED <<run_args, optimized_solution, baseline_solution, run_outcome>>
  /\ UNCHANGED <<ro_delivery_data, ro_distance_matrix, ro_time_matrix, ro_matrices_from>>
  /\ UNCHANGED <<areaVars, matrixVars>>

\* run_optimization, lines 125-134, on the solver just constructed
WorkflowSolve(num_vehicles, include_time_windows, create_baseline) ==
  /\ o_pc = "built"
  /\ RunOptimizationSolve(num_vehicles, include_time_windows, create_baseline)

\* RouteOptimizer(): nothing generated, nothing computed, no solver constructed
InitWorkflow ==
  /\ NoWorkflow
  /\ NoMatrixBuilder
  /\ DELIVERY = DeliveryConfig(vehicle_capacity)
  /\ delivery_data = NoneRec /\ distance_matrix = NoneRec /\ time_matrix = NoneRec
  /\ num_locations = None /\ demands = NoneRec
  /\ NothingRun

NextWorkflow ==
  \/ generate_delivery_scenario
  \/ calculate_distance_matrices
  \/ run_optimization
  \/ \E nv \in VehicleArgs, tw \in BOOLEAN, cb \in BOOLEAN : WorkflowSolve(nv, tw, cb)
  \/ RunBaseline
  \/ RunOptimizationResults

SpecWorkflow == InitWorkflow /\ [][NextWorkflow]_vars

\* ================================================================ claims ====
IsOptimal(res) == res # NoneRec /\ res.status = "optimal"
IsNoSolution(res) == res # NoneRec /\ res.status = "no_solution"

SeqToSet(q) == {q[k] : k \in 1..Len(q)}

WindowStart(loc) ==
  delivery_data[loc].time_window_start[1] * 60 + delivery_data[loc].time_window_start[2]
WindowEnd(loc) ==
  delivery_data[loc].time_window_end[1] * 60 + delivery_data[loc].time_window_end[2]

\* the demand carried after each prefix of a stop sequence is at most the capacity
PrefixDemandsWithinCapacity(stops) ==
  \A k \in 1..Len(stops) :
    SumSeq([i \in 1..k |-> demands[stops[i]]]) <= DELIVERY.vehicle_capacity

\* C1: in every route of the greedy baseline (finished, or under construction)
\* and in every route of an optimal solve_vrp result, the cumulative demand
\* after each prefix of the stops is at most the vehicle capacity.
C1_PrefixDemandWithinCapacity ==
  /\ \A r \in SeqToSet(bl_routes) : PrefixDemandsWithinCapacity(r.stops)
  /\ PrefixDemandsWithinCapacity(route.stops)
  /\ baseline_stats # NoneRec =>
       \A r \in SeqToSet(baseline_stats.routes) : PrefixDemandsWithinCapacity(r.stops)
  /\ IsOptimal(optimized_solution) =>
       \A r \in SeqToSet(optimized_solution.routes) : PrefixDemandsWithinCapacity(r.stops)

\* C1 witness: two locations that do not fit one vehicle together were routed
\* by the baseline and by an optimal solve, each on two routes.
C1_Witness ==
  /\ num_locations = 3
  /\ demands[1] + demands[2] > DELIVERY.vehicle_capacity
  /\ baseline_stats # NoneRec /\ Len(baseline_stats.routes) = 2
  /\ IsOptimal(optimized_solution) /\ Len(optimized_solution.routes) = 2

\* Arrival times along the reported stops with unlimited waiting and a free
\* departure time: the earliest arrival at each stop, and whether it is in time.
EarliestArrivals(stops) ==
  LET A[k \in 1..Len(stops)] ==
        IF k = 1 THEN 0
        ELSE Max2(A[k - 1] + time_matrix[stops[k - 1]][stops[k]],
                  IF stops[k] # 0 THEN WindowStart(stops[k]) ELSE 0)
  IN A

CanMeetWindows(stops) ==
  \A k \in 1..Len(stops) : stops[k] # 0 => EarliestArrivals(stops)[k] <= WindowEnd(stops[k])

\* C2 as stated: whenever solve_vrp returns optimal, whatever its arguments,
\* every non-depot stop is reached within its time window (here in the weakest
\* reading: some schedule of the reported route meets all its windows).
C2_Original_WindowsMetForAnyArguments ==
  IsOptimal(solve_result) =>
    \A r \in SeqToSet(solve_result.routes) : CanMeetWindows(r.stops)

\* C2 amended: when solve_vrp is called with include_time_windows = True and
\* returns optimal, the Time cumul of every non-depot stop of every returned
\* route lies within that stop's window, and the cumuls advance by at least the
\* travel time between consecutive stops.
C2_WindowsMetWhenIncluded ==
  (IsOptimal(solve_result) /\ solve_args.include_time_windows) =>
    \A r \in SeqToSet(solve_result.routes) :
      LET cumul == solution.time[r.vehicle_id]
      IN \A k \in 1..Len(r.stops) :
           /\ cumul[k][1] <= cumul[k][2]
           /\ (r.stops[k] # 0) =>
                /\ WindowStart(r.stops[k]) <= cumul[k][1]
                /\ cumul[k][2] <= WindowEnd(r.stops[k])
           /\ (k > 1) =>
                cumul[k][1] >= cumul[k - 1][1] + time_matrix[r.stops[k - 1]][r.stops[k]]

\* C2 witness: an optimal result under time windows with a route of two
\* deliveries, the second of which has the window 01:00-02:00.
C2_Witness ==
  /\ IsOptimal(solve_result) /\ solve_args.include_time_windows
  /\ \E r \in SeqToSet(solve_result.routes) :
       /\ Len(r.stops) = 4
       /\ WindowStart(r.stops[3]) = 60
       /\ WindowEnd(r.stops[2]) = 45

Occurrences(rs, loc) ==
  Cardinality({ik \in (1..Len(rs)) \X (1..(num_locations + 1)) :
                 ik[2] <= Len(rs[ik[1]].stops) /\ rs[ik[1]].stops[ik[2]] = loc})

\* C3: in an optimal result every non-depot location appears exactly once
\* over all the returned routes.
C3_EveryLocationExactlyOnce ==
  IsOptimal(solve_result) =>
    \A loc \in 1..(num_locations - 1) : Occurrences(solve_result.routes, loc) = 1

\* C3 witness: an optimal result with two routes of one delivery each.
C3_Witness ==
  /\ IsOptimal(solve_result)
  /\ Len(solve_result.routes) = 2
  /\ \A r \in SeqToSet(solve_result.routes) : Len(r.stops) = 3

StopsDistance(stops) ==
  SumSeq([k \in 1..(Len(stops) - 1) |-> distance_matrix[stops[k]][stops[k + 1]]])

\* C7 as stated: each route of an optimal result starts and ends at the depot
\* and its total_distance is the sum of the distance matrix over every
\* consecutive pair of its stops, the return to the depot included.
C7_RouteDistanceIncludesReturn ==
  IsOptimal(solve_result) =>
    \A r \in SeqToSet(solve_result.routes) :
      /\ r.stops[1] = 0 /\ r.stops[Len(r.stops)] = 0
      /\ r.total_distance = StopsDistance(r.stops)

\* C8 as stated: in an optimal result objective_value equals total_distance,
\* the sum of the per-route total distances.
C8_ObjectiveEqualsTotalDistance ==
  IsOptimal(solve_result) =>
    /\ solve_result.total_distance =
         SumSeq([k \in 1..Len(solve_result.routes) |-> solve_result.routes[k].total_distance])
    /\ solve_result.objective_value = solve_result.total_distance

Interior(stops) == SubSeq(stops, 2, Len(stops) - 1)

\* the baseline's routes as values of the routing model: route k on vehicle k - 1
BaselineAssignment(rs, V) ==
  [v \in 0..(V - 1) |-> IF v < Len(rs) THEN Interior(rs[v + 1].stops) ELSE <<>>]

MinObjective(V, include_time_windows) ==
  Min({ObjectiveValue(a, V) : a \in FeasibleAssignments(V, include_time_windows)})

C5_BaselineTerminates == (b_pc = "outer") ~> (b_pc = "done")

\* C6 as stated: when solve_vrp returned no_solution, run_optimization returns
\* results whose solver_status is no_solution and raises nothing.
C6_NoSolutionIsReturnedNotRaised ==
  (o_pc = "done" /\ IsNoSolution(optimized_solution)) =>
    /\ run_outcome.kind = "returned"
    /\ run_outcome.solver_status = "no_solution"

TravelTime(path) ==
  SumSeq([k \in 1..(Len(path) - 1) |-> time_matrix[path[k]][path[k + 1]]])

\* the earliest time a vehicle that leaves the depot can be at loc: the start of
\* the depot's window plus the fastest way there, directly or over other stops
EarliestArrivalFromDepot(loc) ==
  WindowStart(0) +
  Min({TravelTime(<<0>> \o p \o <<loc>>) :
         p \in UNION {Perms(S) : S \in SUBSET ((1..(num_locations - 1)) \ {loc})}})

Unreachable(loc) == WindowEnd(loc) < EarliestArrivalFromDepot(loc)

\* C9: with time windows enabled, if some location's window ends before the
\* earliest time a vehicle from the depot can be there, solve_vrp returns
\* no_solution.
C9_UnreachableWindowGivesNoSolution ==
  (solve_result # NoneRec /\ solve_args.include_time_windows
     /\ \E loc \in 1..(num_locations - 1) : Unreachable(loc)) =>
    solve_result.status = "no_solution"

\* C9 witness: the depot opens at 00:00, a location closes at 00:45 and is 60
\* minutes away, and the solve with time windows returned no_solution.
C9_Witness ==
  /\ IsNoSolution(solve_result) /\ solve_args.include_time_windows
  /\ WindowStart(0) = 0
  /\ \E loc \in 1..(num_locations - 1) :
       /\ Unreachable(loc) /\ WindowEnd(loc) = 45
       /\ \A other \in (1..(num_locations - 1)) \ {loc} : ~Unreachable(other)

C11_ScenarioResult ==
  /\ b_pc = "done" =>
       /\ baseline_stats.num_vehicles_used <= 3
       /\ Len(baseline_stats.routes) = baseline_stats.num_vehicles_used
       /\ \A r \in SeqToSet(baseline_stats.routes) :
            /\ r.total_demand <= 30
            /\ r.total_demand = SumSeq([k \in 1..Len(r.stops) |-> demands[r.stops[k]]])
       /\ baseline_stats.total_demand_served = 51
       /\ \A loc \in 1..(num_locations - 1) : Occurrences(baseline_stats.routes, loc) = 1
  /\ b_pc = "close" => Len(route.stops) > 1
  /\ route.total_demand <= 30
  /\ \A r \in SeqToSet(bl_routes) : r.total_demand <= 30

C11_ScenarioFeasibleAndTerminates ==
  [](C11_ScenarioResult) /\ ((b_pc = "outer") ~> (b_pc = "done"))

\* C11 witness: the baseline returned three routes, the first of which was
\* closed because the nearest remaining location did not fit.
C11_Witness ==
  /\ b_pc = "done"
  /\ baseline_stats.num_vehicles_used = 3
  /\ baseline_stats.routes[1].total_demand < 27
  /\ DELIVERY.vehicle_capacity = 30 /\ num_locations = 6

InvalidInput == [raised |-> "InvalidInput"]

MalformedProblem ==
  \/ \E loc \in 1..(num_locations - 1) : demands[loc] < 0
  \/ \E loc \in Nodes(num_locations) : WindowStart(loc) >= WindowEnd(loc)
  \/ DELIVERY.vehicle_capacity <= 0

\* C12 as stated: a solve requested with zero vehicles (on an otherwise
\* well-formed problem) ends with an InvalidInput error and never gets as far
\* as handing the vehicle count to the routing model (solve_args holds what the
\* routing model was built with).
C12_ZeroVehiclesRejected ==
  (~MalformedProblem /\ solve_args # NoneRec /\ solve_args.num_vehicles = 0) =>
    solve_result = InvalidInput

\* C13 as stated: a problem with a negative demand, a window whose start is not
\* before its end, or a vehicle capacity that is not positive is rejected at
\* construction, so no solve and no baseline construction ever begins on it.
C13_MalformedProblemRejected ==
  MalformedProblem => (b_pc = "idle" /\ solve_args = NoneRec /\ solve_result = NoneRec)

\* C14 as stated: a DistanceMatrix for fewer than 2 locations is rejected with
\* InvalidInput at construction or at the first compute call: it never stores
\* or returns a matrix.
C14_FewerThanTwoLocationsRejected ==
  (dm_num_locations # None /\ dm_num_locations < 2) =>
    /\ dm_distance_matrix = NoneRec /\ dm_time_matrix = NoneRec
    /\ (dm_returned = NoneRec \/ dm_returned = InvalidInput)

CachedCall(call) ==
  call.name \in {"get_matrices", "get_distance", "get_travel_time"} \/ call.use_cache

\* what a call returns when it only reads the stored matrices
StoredValue(call) ==
  CASE call.name = "compute_distance_matrix" -> dm_distance_matrix.matrix
    [] call.name = "compute_time_matrix" -> dm_time_matrix.matrix
    [] call.name = "get_distance" -> dm_distance_matrix.matrix[call.i][call.j]
    [] call.name = "get_travel_time" -> dm_time_matrix.matrix[call.i][call.j]
    [] call.name = "get_matrices" -> <<dm_distance_matrix.matrix, dm_time_matrix.matrix>>

\* C15: once both matrices are built, every get_matrices, get_distance,
\* get_travel_time and compute_* call with use_cache = True leaves both stored
\* matrices as they are and returns the stored value.
C15_CachedCallsAreStable ==
  [][(dm_distance_matrix # NoneRec /\ dm_time_matrix # NoneRec /\ CachedCall(dm_call')) =>
       /\ dm_distance_matrix' = dm_distance_matrix
       /\ dm_time_matrix' = dm_time_matrix
       /\ dm_returned' = Returned(StoredValue(dm_call'))]_vars

\* C15 witness: get_matrices returned a time matrix that was not computed from
\* the distance matrix it returned with it, so both were already stored (the
\* distances recomputed with use_cache = False since) and were handed out as
\* they were.
C15_Witness ==
  /\ dm_distance_matrix # NoneRec /\ dm_time_matrix # NoneRec
  /\ dm_call.name = "get_matrices"
  /\ dm_returned = Returned(<<dm_distance_matrix.matrix, dm_time_matrix.matrix>>)
  /\ \E i, j \in Nodes(dm_num_locations) :
       /\ i # j
       /\ \A f \in TravelMinutesPerKm :
            dm_time_matrix.matrix[i][j] # dm_distance_matrix.matrix[i][j] * f

\* C16: every stored distance matrix and time matrix has a zero diagonal.
C16_DiagonalIsZero ==
  /\ dm_distance_matrix # NoneRec =>
       \A i \in Nodes(dm_num_locations) : dm_distance_matrix.matrix[i][i] = 0
  /\ dm_time_matrix # NoneRec =>
       \A i \in Nodes(dm_num_locations) : dm_time_matrix.matrix[i][i] = 0

\* C16 witness: the time matrix of two locations was recomputed with
\* use_cache = False, and the other entries of both matrices are positive.
C16_Witness ==
  /\ dm_num_locations = 2
  /\ dm_distance_matrix # NoneRec /\ dm_time_matrix # NoneRec
  /\ dm_call.name = "compute_time_matrix" /\ ~dm_call.use_cache
  /\ dm_distance_matrix.matrix[0][1] > 0 /\ dm_time_matrix.matrix[1][0] > 0

\* C17: in an optimal result every route starts and ends at the depot with at
\* least one delivery (and no depot) between; num_vehicles_used is the number
\* of routes and at most the number of vehicles of the solve; and
\* total_demand_served is the sum of the demands of all non-depot locations.
C17_ResultFields ==
  IsOptimal(solve_result) =>
    /\ \A r \in SeqToSet(solve_result.routes) :
         /\ Len(r.stops) >= 3
         /\ r.stops[1] = 0 /\ r.stops[Len(r.stops)] = 0
         /\ \A k \in 2..(Len(r.stops) - 1) : r.stops[k] # 0
    /\ solve_result.num_vehicles_used = Len(solve_result.routes)
    /\ solve_result.num_vehicles_used <= solve_args.num_vehicles
    /\ solve_result.total_demand_served =
         SumSeq([k \in 1..(num_locations - 1) |-> demands[k]])

\* C17 witness: an optimal result of a solve with three vehicles that uses one
\* of them, for a route of two deliveries.
C17_Witness ==
  /\ IsOptimal(solve_result)
  /\ solve_args.num_vehicles = 3
  /\ solve_result.num_vehicles_used = 1
  /\ Len(solve_result.routes[1].stops) = 4
  /\ solve_result.total_demand_served = 80

\* the stop sequences a vehicle can be given: distinct locations in any order
RouteChoices ==
  UNION {Perms(S) : S \in SUBSET (1..(num_locations - 1))}

\* departure times from the depot, every quarter of an hour of its window
StartTimes ==
  {WindowStart(0) + 15 * q : q \in 0..((WindowEnd(0) - WindowStart(0)) \div 15)}

\* A vehicle that leaves the depot at `start`, drives without detour and waits
\* at a stop it reaches before the window opens: the time at every index of
\* the path depot, stops, depot.
Schedule(stops, start) ==
  LET path == PathOf(stops)
      A[k \in 1..Len(path)] ==
        IF k = 1 THEN start
        ELSE LET arrival == A[k - 1] + time_matrix[path[k - 1]][path[k]]
             IN IF k = Len(path) THEN arrival
                ELSE Max2(arrival, WindowStart(path[k]))
  IN <<A[1]>> \o [k \in 1..(Len(path) - 1) |-> A[k + 1]]

\* how long before the window opens the vehicle reaches the k-th index
Earliness(stops, A, k) ==
  A[k] - (A[k - 1] + time_matrix[PathOf(stops)[k - 1]][PathOf(stops)[k]])

StopsInsideWindows(stops, A) ==
  \A k \in 2..(Len(stops) + 1) : A[k] <= WindowEnd(stops[k - 1])

EarlinessAtMost(stops, A, w) ==
  \A k \in 2..(Len(stops) + 1) : Earliness(stops, A, k) <= w

ElapsedTime(A) == A[Len(A)] - A[1]

SolvedWithTimeWindows == solve_args # NoneRec /\ solve_args.include_time_windows

\* C18 as stated: a route that has a departure time for which every stop is
\* reached inside its window (waiting at most the allowed 30 minutes) and the
\* time from departure to return is at most max_route_duration_hours is
\* feasible for the solver, at whatever time of day its windows lie.
C18_DurationBoundsElapsedTime ==
  SolvedWithTimeWindows =>
    \A stops \in RouteChoices :
      (\E start \in StartTimes :
         LET A == Schedule(stops, start)
         IN /\ StopsInsideWindows(stops, A)
            /\ EarlinessAtMost(stops, A, waiting_slack)
            /\ ElapsedTime(A) <= max_route_duration_hours * 60)
      => TimeFeasible(stops)

\* the times of a schedule all lie in the range of the Time dimension
WithinTimeHorizon(A) ==
  \A k \in 1..Len(A) : TimeHorizon[1] <= A[k] /\ A[k] <= TimeHorizon[2]

\* C19 as stated: however early a vehicle reaches a stop, it waits for the
\* window to open and the route stays feasible when its other constraints
\* (windows, range of the Time dimension) hold.
C19_Original_AnyEarlinessIsFeasible ==
  SolvedWithTimeWindows =>
    \A stops \in RouteChoices :
      (\E start \in StartTimes :
         LET A == Schedule(stops, start)
         IN StopsInsideWindows(stops, A) /\ WithinTimeHorizon(A))
      => TimeFeasible(stops)

\* C19 amended: a vehicle that reaches its stops at most 30 minutes (the slack
\* of the Time dimension) before their windows open waits: the route is
\* feasible when its other constraints hold, and the waiting schedule, with
\* the time at an early stop equal to the window start, lies within the
\* solver's range for every time value of the route.
C19_EarlinessWithinSlackIsFeasible ==
  SolvedWithTimeWindows =>
    \A stops \in RouteChoices :
      LET cumul == TimeCumul(PathOf(stops))
          feasible == TimeFeasible(stops)
      IN \A start \in StartTimes :
           LET A == Schedule(stops, start)
           IN (/\ StopsInsideWindows(stops, A)
               /\ WithinTimeHorizon(A)
               /\ EarlinessAtMost(stops, A, waiting_slack))
              => /\ feasible
                 /\ \A k \in 1..Len(A) : cumul[k][1] <= A[k] /\ A[k] <= cumul[k][2]

\* C19 witness: an optimal result under time windows with a route whose first
\* stop is reached, leaving the depot at the earliest time the solution
\* allows, 30 minutes before its window opens.
C19_Witness ==
  /\ IsOptimal(solve_result) /\ solve_args.include_time_windows
  /\ \E r \in SeqToSet(solve_result.routes) :
       LET cumul == solution.time[r.vehicle_id]
           stops == Interior(r.stops)
           A == Schedule(stops, cumul[1][1])
       IN /\ cumul[1][1] \in StartTimes
          /\ Earliness(stops, A, 2) = waiting_slack
          /\ cumul[2][1] = WindowStart(r.stops[2])
          /\ StopsInsideWindows(stops, A)

\* C20 as stated: in an optimal result under time windows, for every vehicle
\* the time value at its depot start and the time value at its depot end (here
\* the earliest the solution allows) lie within the depot's window.
C20_DepotStartAndEndInWindow ==
  (IsOptimal(solve_result) /\ solve_args.include_time_windows) =>
    \A v \in 0..(solve_args.num_vehicles - 1) :
      LET cumul == solution.time[v]
          end == Len(cumul)
      IN /\ WindowStart(0) <= cumul[1][1] /\ cumul[1][2] <= WindowEnd(0)
         /\ WindowStart(0) <= cumul[end][1] /\ cumul[end][1] <= WindowEnd(0)

\* the inner loop of create_baseline_solution has just appended a stop
StopAppended == b_pc = "inner" /\ Len(route'.stops) = Len(route.stops) + 1

\* C21: whenever create_baseline_solution appends a stop, the stop was
\* unvisited, no unvisited location is nearer to the current position, and
\* every unvisited location at the same distance has a higher identifier.
C21_NearestLowestIdChosen ==
  [][StopAppended =>
       LET chosen == route'.stops[Len(route'.stops)]
       IN /\ chosen \in unvisited
          /\ current' = chosen
          /\ \A m \in unvisited \ {chosen} :
               \/ distance_matrix[current][chosen] < distance_matrix[current][m]
               \/ /\ distance_matrix[current][chosen] = distance_matrix[current][m]
                  /\ chosen < m]_vars

\* C21 witness: locations 1 and 2 were at the same distance from the depot
\* and location 1 was appended first.
C21_Witness ==
  /\ num_locations = 3 /\ b_pc = "inner"
  /\ route.stops = <<0, 1>>
  /\ distance_matrix[0][1] = distance_matrix[0][2]
  /\ unvisited = {2}

\* the unvisited location the scan of the inner loop selects
NearestUnvisited ==
  CHOOSE l \in unvisited : \A m \in unvisited \ {l} :
    \/ distance_matrix[current][l] < distance_matrix[current][m]
    \/ distance_matrix[current][l] = distance_matrix[current][m] /\ l < m

BelowNinetyPercent == 10 * current_capacity < 9 * DELIVERY.vehicle_capacity

NearestOverflows ==
  /\ unvisited # {}
  /\ current_capacity + demands[NearestUnvisited] > DELIVERY.vehicle_capacity

\* C22: create_baseline_solution appends a stop only when the accumulated
\* demand of the route is below 90% of the vehicle capacity; when the nearest
\* unvisited location would take the route over the full capacity the inner
\* loop ends without appending anything; and once the inner loop has ended the
\* route gets no further stop but the closing depot.
C22_ExtendBelowThresholdCloseOnOverflow ==
  [][/\ StopAppended => (BelowNinetyPercent /\ current_capacity = route.total_demand)
     /\ (b_pc = "inner" /\ BelowNinetyPercent /\ NearestOverflows) =>
          (b_pc' = "close" /\ route' = route /\ unvisited' = unvisited)
     /\ b_pc = "close" =>
          /\ route' = route /\ unvisited' = unvisited
          /\ Len(route.stops) > 1 =>
               bl_routes'[Len(bl_routes')].stops = Append(route.stops, 0)]_vars

\* C22 witness: a route with a delivery is being closed below 90% because the
\* nearest unvisited location does not fit, while a farther one would.
C22_Witness ==
  /\ b_pc = "close" /\ Len(route.stops) > 1
  /\ BelowNinetyPercent /\ NearestOverflows
  /\ \E far \in unvisited :
       /\ distance_matrix[current][far] > distance_matrix[current][NearestUnvisited]
       /\ current_capacity + demands[far] <= DELIVERY.vehicle_capacity

\* C23: when create_baseline_solution has returned, every non-depot location
\* appears exactly once over all the routes it returned; every route starts and
\* ends at the depot with at least one delivery and no depot between; its
\* total_demand is the sum of the demands of its stops and its total_distance
\* the sum of the distance matrix over its consecutive stops, the return to the
\* depot included.
C23_BaselineStructure ==
  b_pc = "done" =>
    /\ \A loc \in 1..(num_locations - 1) : Occurrences(baseline_stats.routes, loc) = 1
    /\ \A r \in SeqToSet(baseline_stats.routes) :
         /\ Len(r.stops) >= 3
         /\ r.stops[1] = 0 /\ r.stops[Len(r.stops)] = 0
         /\ \A k \in 2..(Len(r.stops) - 1) : r.stops[k] # 0
         /\ r.total_demand = SumSeq([k \in 1..Len(r.stops) |-> demands[r.stops[k]]])
         /\ r.total_distance = StopsDistance(r.stops)

\* C23 witness: the baseline returned two routes, one of them with two
\* deliveries, on a matrix where the way back to the depot from its last
\* delivery differs from the way out to it.
C23_Witness ==
  /\ b_pc = "done" /\ Len(baseline_stats.routes) = 2
  /\ \E r \in SeqToSet(baseline_stats.routes) :
       /\ Len(r.stops) = 4
       /\ distance_matrix[r.stops[3]][0] # distance_matrix[0][r.stops[3]]

\* create_baseline_solution as a function of the demands, the distance matrix,
\* the vehicle capacity and the set of locations still to visit: the inner
\* loop from a route under construction, then the outer loop
RECURSIVE GreedyExtend(_, _, _, _, _, _)
GreedyExtend(dem, dist, cap, unv, r, cur) ==
  IF unv # {} /\ 10 * r.total_demand < 9 * cap
  THEN LET nearest == CHOOSE l \in unv : \A m \in unv \ {l} :
                        \/ dist[cur][l] < dist[cur][m]
                        \/ dist[cur][l] = dist[cur][m] /\ l < m
       IN IF r.total_demand + dem[nearest] > cap
          THEN [route |-> r, unvisited |-> unv, current |-> cur]
          ELSE GreedyExtend(dem, dist, cap, unv \ {nearest},
                            [r EXCEPT !.stops = Append(@, nearest),
                                      !.total_distance = @ + dist[cur][nearest],
                                      !.total_demand = @ + dem[nearest]],
                            nearest)
  ELSE [route |-> r, unvisited |-> unv, current |-> cur]

RECURSIVE GreedyRoutes(_, _, _, _, _)
GreedyRoutes(dem, dist, cap, unv, rs) ==
  IF unv = {} THEN rs
  ELSE LET e == GreedyExtend(dem, dist, cap, unv,
                             [vehicle_id |-> Len(rs), stops |-> <<0>>,
                              total_distance |-> 0, total_demand |-> 0], 0)
       IN GreedyRoutes(dem, dist, cap, e.unvisited,
                       Append(rs, [e.route EXCEPT
                                     !.stops = Append(@, 0),
                                     !.total_distance = @ + dist[e.current][0]]))

\* C24: whatever the time windows of the table, the routes
\* create_baseline_solution returns are those determined by the demands, the
\* vehicle capacity and the distance matrix alone, so two problems that differ
\* only in their time windows get identical baseline routes.
C24_BaselineIgnoresTimeWindows ==
  b_pc = "done" =>
    baseline_stats.routes =
      GreedyRoutes(demands, distance_matrix, DELIVERY.vehicle_capacity,
                   1..(num_locations - 1), <<>>)

\* C24 witness: the baseline returned a route that serves a location whose
\* window opens at 03:00 before a location whose window closes at 00:45.
C24_Witness ==
  /\ b_pc = "done" /\ num_locations = 3
  /\ Len(baseline_stats.routes) = 1
  /\ LET stops == baseline_stats.routes[1].stops
     IN /\ Len(stops) = 4
        /\ WindowStart(stops[2]) = 180
        /\ WindowEnd(stops[3]) = 45

\* the values solve_vrp can return on this solver, from its inputs alone
PossibleSolveResults(num_vehicles, include_time_windows) ==
  LET V == _create_data_model(num_vehicles).num_vehicles
  IN {NoSolution} \cup
     {_create_solution_dict(_extract_routes(a, V), ObjectiveValue(a, V)) :
        a \in FeasibleAssignments(V, include_time_windows)}

BaselineStepTaken == b_pc' # b_pc \/ route' # route
SolveStepTaken == solve_args = NoneRec /\ solve_args' # NoneRec

\* C25: a step of create_baseline_solution leaves the solver's solution,
\* routes, objective_value and both matrices as they are; a solve_vrp call
\* leaves the state of the baseline as it is; whether or not the other has
\* run before, the baseline returns the routes determined by demands,
\* capacity and distance matrix, and once the baseline has returned solve_vrp
\* can still return every result its own inputs allow.
C25_BaselineAndSolveIndependent ==
  /\ [](b_pc = "done" =>
          baseline_stats = BaselineStats(GreedyRoutes(demands, distance_matrix,
                              DELIVERY.vehicle_capacity, 1..(num_locations - 1), <<>>)))
  /\ []((solve_args = NoneRec /\ b_pc = "done" /\ prev_baseline = NoneRec) =>
          \A nv \in VehicleArgs, tw \in BOOLEAN :
            \A res \in PossibleSolveResults(nv, tw) :
              ENABLED (SolveVrp(nv, tw) /\ solve_result' = res))
  /\ [][/\ BaselineStepTaken =>
            UNCHANGED <<solution, routes, objective_value, solve_result,
                        distance_matrix, time_matrix>>
        /\ SolveStepTaken =>
            UNCHANGED <<baselineVars, distance_matrix, time_matrix>>]_vars

\* C25 witness: the baseline is called for the first time and extends its
\* only route on a solver whose solve_vrp has already stored an optimal
\* solution of two routes.
C25_Witness ==
  /\ b_pc = "inner" /\ prev_baseline = NoneRec /\ baseline_stats = NoneRec
  /\ IsOptimal(solve_result) /\ routes = solve_result.routes
  /\ num_locations = 3
  /\ Len(routes) = 2
  /\ Len(route.stops) = 3

\* the classes as the specification defines them
BothUrban(p1, p2) ==
  /\ haversine(urban_center, p1) <= urban_radius_km
  /\ haversine(urban_center, p2) <= urban_radius_km

BothRural(p1, p2) ==
  /\ 2 * haversine(urban_center, p1) > 3 * urban_radius_km
  /\ 2 * haversine(urban_center, p2) > 3 * urban_radius_km

\* C26: the class the distance of an ordered pair was computed for is urban
\* iff both endpoints are within the urban radius of the center, rural iff both
\* are farther than 1.5 times the radius, and mixed in every other case; the
\* travel time of the same ordered pair was computed for the same class.
C26_ClassesAsDefined ==
  \A dir \in Directions :
    at_distance[dir] # NoneRec =>
      LET p1 == PointsOf(dir)[1]
          p2 == PointsOf(dir)[2]
          class == at_distance[dir].route_type
      IN /\ class \in {"urban", "rural", "mixed"}
         /\ class = "urban" <=> BothUrban(p1, p2)
         /\ class = "rural" <=> BothRural(p1, p2)
         /\ class = "mixed" <=> (~BothUrban(p1, p2) /\ ~BothRural(p1, p2))
         /\ at_time[dir] # NoneRec => at_time[dir].route_type = class

\* C26 witness: distance and time were computed for a pair with one endpoint
\* 11 km and the other 16 km from the center, which is mixed.
C26_Witness ==
  /\ at_points = <<11, 16>>
  /\ at_distance["ij"] # NoneRec /\ at_time["ij"] # NoneRec
  /\ at_distance["ij"].route_type = "mixed"

\* C27 as stated: there are two points whose ordered pairs (i, j) and (j, i)
\* get different classes (looked for among all the points, once both
\* directions of the pair in hand have been computed).
C27_Original_AsymmetricPairExists ==
  (at_distance["ij"] # NoneRec /\ at_distance["ji"] # NoneRec) =>
    \E p1, p2 \in Points :
      _determine_area_type(p1, p2) # _determine_area_type(p2, p1)

\* C27: the class is computed once per ordered pair, and the two ordered pairs
\* of the same two points always get the same class; what differs between the
\* directions is the detour factor and the speed factor drawn for each.
C27_ClassIsSymmetric ==
  /\ (at_distance["ij"] # NoneRec /\ at_distance["ji"] # NoneRec) =>
       at_distance["ij"].route_type = at_distance["ji"].route_type
  /\ (at_time["ij"] # NoneRec /\ at_time["ji"] # NoneRec) =>
       at_time["ij"].route_type = at_time["ji"].route_type

\* C27 witness: both directions of a pair with one endpoint in the urban
\* radius and one beyond 1.5 times the radius were computed, with different
\* distances.
C27_Witness ==
  /\ at_points = <<10, 0 - 16>>
  /\ at_distance["ij"] # NoneRec /\ at_distance["ji"] # NoneRec
  /\ at_distance["ij"].value # at_distance["ji"].value
  /\ at_distance["ij"].route_type = "mixed"

\* C30 as stated: whenever both matrices are stored, every off-diagonal entry
\* of the time matrix is a travel time of the stored distance of the same pair
\* (that distance times one of the minutes-per-km factors).
C30_TimeMatrixDerivedFromStoredDistances ==
  (dm_distance_matrix # NoneRec /\ dm_time_matrix # NoneRec) =>
    \A i, j \in Nodes(dm_num_locations) :
      i # j => \E f \in TravelMinutesPerKm :
                 dm_time_matrix.matrix[i][j] = dm_distance_matrix.matrix[i][j] * f

\* a call of the named method of the optimizer begins with this step
CallStep(name) == NoCallRunning /\ ro_call' # NoneRec /\ ro_call'.name = name

\* C28: a calculate_distance_matrices call without delivery data, and a
\* run_optimization call without delivery data or without a distance matrix,
\* raises ValueError; no solver is constructed or run, and the optimizer's
\* stored data, matrices and solutions stay as they were.
C28_CallOrderEnforcedByError ==
  [][((CallStep("calculate_distance_matrices") /\ ro_delivery_data = NoneRec)
      \/ (CallStep("run_optimization")
            /\ (ro_delivery_data = NoneRec \/ ro_distance_matrix = NoneRec))) =>
       /\ ro_raised' = ValueError
       /\ UNCHANGED <<ro_delivery_data, ro_distance_matrix, ro_time_matrix, ro_matrices_from>>
       /\ UNCHANGED <<inputVars, solverVars, baselineVars, optimizerVars>>]_vars

\* C28 witness: run_optimization was called with delivery data generated but
\* no distance matrix computed, and raised; no solver exists.
C28_Witness ==
  /\ ro_call # NoneRec /\ ro_call.name = "run_optimization"
  /\ ro_raised = ValueError
  /\ ro_delivery_data # NoneRec /\ ro_distance_matrix = NoneRec
  /\ o_pc = "idle" /\ num_locations = None /\ solve_args = NoneRec
  /\ optimized_solution = NoneRec

\* C29 as stated: while run_optimization runs the solver, the stored matrices
\* are the ones computed from the delivery data now stored and handed to the
\* solver.
C29_MatricesMatchStoredData ==
  o_pc \in {"built", "baseline", "results"} =>
    /\ ro_matrices_from = ro_delivery_data
    /\ delivery_data = ro_matrices_from.table

====
